---- MODULE Spec2Model ----
(***************************************************************************)
(* Model of the CRM GraphQL backend (crm/schema.py): the persistent store  *)
(* of customers, products and orders, and the mutations that change it.    *)
(*                                                                         *)
(* Every mutation is a request handler.  A handler is modelled as a        *)
(* process that moves through the statements of its mutate() method that   *)
(* touch the database; each database read and each database write is one   *)
(* step, so that handlers of concurrent requests interleave as they do on  *)
(* a database in READ COMMITTED mode.                                      *)
(*                                                                         *)
(* Handlers decorated with @transaction.atomic write into a private write  *)
(* log which is applied to the store when the decorator exits (commit) or  *)
(* dropped (rollback).  The other handlers run in autocommit mode: each    *)
(* save() is applied to the store at once.                                 *)
(***************************************************************************)
EXTENDS Integers, Sequences, FiniteSets, TLC

\* ------------------------------------------------------------------ bounds
MaxProducts == 2      \* products the store may hold
MaxOrders   == 1      \* orders in the store when one more create_order is accepted
MaxStock    == 2      \* largest stock a create_product / stock update asks for
MaxCalls    == 2      \* calls taken in all when requests run concurrently

\* The request workers.  Spec runs one of them, SpecConc both.
Procs == {"w1", "w2"}

\* ------------------------------------------------------------ characters
Digits  == {"0", "1", "2", "3", "4", "5", "6", "7", "8", "9"}
LowerSeq == <<"a","b","c","d","e","f","g","h","i","j","k","l","m",
              "n","o","p","q","r","s","t","u","v","w","x","y","z">>
UpperSeq == <<"A","B","C","D","E","F","G","H","I","J","K","L","M",
              "N","O","P","Q","R","S","T","U","V","W","X","Y","Z">>
Range(s) == {s[i] : i \in DOMAIN s}
Letters == Range(LowerSeq) \cup Range(UpperSeq)

\* str.lower() of one character and of a string (a sequence of characters).
lower_char(c) ==
    IF c \in Range(UpperSeq)
    THEN LowerSeq[CHOOSE i \in DOMAIN UpperSeq : UpperSeq[i] = c]
    ELSE c
lower(s) == [i \in DOMAIN s |-> lower_char(s[i])]

\* str.strip(): drop leading and trailing blanks.
RECURSIVE lstrip(_)
lstrip(s) == IF s # <<>> /\ Head(s) = " " THEN lstrip(Tail(s)) ELSE s
RECURSIVE rstrip(_)
rstrip(s) ==
    IF s # <<>> /\ s[Len(s)] = " " THEN rstrip(SubSeq(s, 1, Len(s) - 1)) ELSE s
strip(s) == rstrip(lstrip(s))

AllIn(s, chars) == \A i \in DOMAIN s : s[i] \in chars

\* -------------------------------------------------- ValidationUtils
\* Each validator returns <<is_valid, error>>.  Strings are sequences of
\* characters; an absent or empty string argument is <<>>.
None == "None"

validate_name(name) ==
    IF name = <<>> \/ strip(name) = <<>>
    THEN <<FALSE, "Name cannot be empty">>
    ELSE <<TRUE, None>>

EmailLocalChars  == Letters \cup Digits \cup {".", "_", "%", "+", "-"}
EmailDomainChars == Letters \cup Digits \cup {".", "-"}

\* ^[a-zA-Z0-9._%+-]+@[a-zA-Z0-9.-]+\.[a-zA-Z]{2,}$
email_matches(email) ==
    \E at \in DOMAIN email :
        /\ email[at] = "@"
        /\ at > 1
        /\ AllIn(SubSeq(email, 1, at - 1), EmailLocalChars)
        /\ \E dot \in (at + 2)..Len(email) :
              /\ email[dot] = "."
              /\ AllIn(SubSeq(email, at + 1, dot - 1), EmailDomainChars)
              /\ Len(email) - dot >= 2
              /\ AllIn(SubSeq(email, dot + 1, Len(email)), Letters)

validate_email(email) ==
    IF ~email_matches(email)
    THEN <<FALSE, "Invalid email format">>
    ELSE <<TRUE, None>>

\* ^\+\d{1,3}[- ]?\d{6,14}$
phone_international(phone) ==
    /\ Len(phone) >= 1
    /\ phone[1] = "+"
    /\ \E cc \in 1..3 :
          /\ Len(phone) >= 1 + cc
          /\ AllIn(SubSeq(phone, 2, 1 + cc), Digits)
          /\ \E sep \in 0..1 :
                /\ Len(phone) >= 1 + cc + sep
                /\ sep = 1 => phone[2 + cc] \in {"-", " "}
                /\ LET rest == SubSeq(phone, 2 + cc + sep, Len(phone))
                   IN  Len(rest) >= 6 /\ Len(rest) <= 14 /\ AllIn(rest, Digits)

\* ^\d{3}[- ]?\d{3}[- ]?\d{4}$
phone_local(phone) ==
    \E s1 \in 0..1, s2 \in 0..1 :
        /\ Len(phone) = 10 + s1 + s2
        /\ AllIn(SubSeq(phone, 1, 3), Digits)
        /\ s1 = 1 => phone[4] \in {"-", " "}
        /\ AllIn(SubSeq(phone, 4 + s1, 6 + s1), Digits)
        /\ s2 = 1 => phone[7 + s1] \in {"-", " "}
        /\ AllIn(SubSeq(phone, 7 + s1 + s2, 10 + s1 + s2), Digits)

\* ^\(\d{3}\) \d{3}-\d{4}$
phone_parenthesised(phone) ==
    /\ Len(phone) = 14
    /\ phone[1] = "(" /\ phone[5] = ")" /\ phone[6] = " " /\ phone[10] = "-"
    /\ AllIn(SubSeq(phone, 2, 4), Digits)
    /\ AllIn(SubSeq(phone, 7, 9), Digits)
    /\ AllIn(SubSeq(phone, 11, 14), Digits)

validate_phone(phone) ==
    IF phone = <<>>
    THEN <<TRUE, None>>
    ELSE IF phone_international(phone) \/ phone_local(phone)
            \/ phone_parenthesised(phone)
         THEN <<TRUE, None>>
         ELSE <<FALSE, "Invalid phone format">>

\* A price check that rejects only negative prices.
validate_price_NonNegative(price) ==
    IF price < 0
    THEN <<FALSE, "Price must be greater than 0">>
    ELSE <<TRUE, None>>

validate_price(price) ==
    IF price <= 0
    THEN <<FALSE, "Price must be greater than 0">>
    ELSE <<TRUE, None>>

validate_stock(stock) ==
    IF stock < 0
    THEN <<FALSE, "Stock cannot be negative">>
    ELSE <<TRUE, None>>

\* ------------------------------------------------------------------ state
VARIABLES
    customers,   \* table Customer: sequence of [name, email, phone], id = index
    products,    \* table Product:  sequence of [name, price, stock], id = index
    orders,      \* table Order:    sequence of [customer, status, total_amount,
                 \*                 products], products = the m2m rows of the order
    pc,          \* per worker: the statement its handler is at
    frame,       \* per worker: the handler's input and local variables
    txn,         \* per worker: the open transaction (write log, rollback mark)
    result,      \* per worker: the response the handler returned last
    pre,         \* per worker: the store as it was when the handler was called
    origin,      \* history, per order: the stock its products had before the
                 \* create_order committed, until another call changes their stock
    calls,       \* history: the calls taken so far, counted up to MaxCalls
    ledger       \* history, per product: the stock it was created with plus
                 \* the stock_change of every stock update stored for it

vars == <<customers, products, orders, pc, frame, txn, result, pre, origin,
          calls, ledger>>

DB == [customers |-> customers, products |-> products, orders |-> orders]

NoFrame  == [op |-> "none", input |-> <<>>, products |-> <<>>,
             total_amount |-> 0, k |-> 0, order |-> 0, new_stock |-> 0,
             customers |-> <<>>, errors |-> <<>>,
             created_count |-> 0, failed_count |-> 0,
             raised_at |-> ""]
NoTxn    == [log |-> <<>>, needs_rollback |-> FALSE, aborted |-> FALSE]
NoResult == [success |-> FALSE, message |-> "", payload |-> <<>>,
             subject |-> 0, raised |-> FALSE]

\* The response object a handler returns.  `subject` is the id the message
\* quotes (0 when it quotes none); `raised` is set when, instead of a
\* response, an exception reached the caller.
Response(success, message, payload) ==
    [success |-> success, message |-> message, payload |-> payload,
     subject |-> 0, raised |-> FALSE]
About(resp, id) == [resp EXCEPT !.subject = id]
Raised(exception) ==
    [success |-> FALSE, message |-> exception, payload |-> <<>>,
     subject |-> 0, raised |-> TRUE]

\* A statement that reaches the database either runs or raises a storage
\* fault (an exception of the database layer).
FaultChoices == {FALSE, TRUE}

Idle(p) == pc[p] \in {"idle", "done"}

\* ------------------------------------------------------- the write log
\* One entry per write statement of a transaction: [kind, id, val].
Write(kind, id, val) == [kind |-> kind, id |-> id, val |-> val]

\* A status write that also empties the order's product set.
ApplyWrite_ClearProducts(db, w) ==
    CASE w.kind = "customer_insert" ->
            [db EXCEPT !.customers = Append(@, w.val)]
      [] w.kind = "order_insert" ->
            [db EXCEPT !.orders = Append(@, w.val)]
      [] w.kind = "order_products" ->
            [db EXCEPT !.orders[Len(db.orders)].products = @ \cup w.val]
      [] w.kind = "order_status" ->
            [db EXCEPT !.orders[w.id].status = w.val,
                       !.orders[w.id].products = {}]
      [] w.kind = "product_stock" ->
            [db EXCEPT !.products[w.id].stock = w.val]

ApplyWrite(db, w) ==
    CASE w.kind = "customer_insert" ->
            [db EXCEPT !.customers = Append(@, w.val)]
      [] w.kind = "order_insert" ->
            [db EXCEPT !.orders = Append(@, w.val)]
      [] w.kind = "order_products" ->
            \* rows of the m2m table for the order this transaction inserted;
            \* (order, product) is unique, a product is associated once
            [db EXCEPT !.orders[Len(db.orders)].products = @ \cup w.val]
      [] w.kind = "order_status" ->
            [db EXCEPT !.orders[w.id].status = w.val]
      [] w.kind = "product_stock" ->
            [db EXCEPT !.products[w.id].stock = w.val]

RECURSIVE ApplyLog(_, _)
ApplyLog(db, log) ==
    IF log = <<>> THEN db ELSE ApplyLog(ApplyWrite(db, Head(log)), Tail(log))

\* An exit that commits whenever the handler returned normally, whatever
\* the ORM marked.
AtomicExitDB_CommitOnReturn(db, t) ==
    IF t.aborted THEN db ELSE ApplyLog(db, t.log)

\* transaction.atomic.__exit__ when the handler returned normally: Django
\* commits unless the transaction was marked for rollback by a failed ORM
\* write; a transaction the database aborted commits nothing either.
AtomicExitDB(db, t) ==
    IF t.needs_rollback \/ t.aborted THEN db ELSE ApplyLog(db, t.log)

Init ==
    /\ customers = <<>>
    /\ products = <<>>
    /\ orders = <<>>
    /\ pc = [p \in Procs |-> "idle"]
    /\ frame = [p \in Procs |-> NoFrame]
    /\ txn = [p \in Procs |-> NoTxn]
    /\ result = [p \in Procs |-> NoResult]
    /\ pre = [p \in Procs |-> [customers |-> <<>>, products |-> <<>>, orders |-> <<>>]]
    /\ origin = <<>>
    /\ calls = 0
    /\ ledger = <<>>

\* The handler of worker p is called: its frame is fresh and the store is
\* remembered for the claims that compare the store before and after.
Enter(p, op, input) ==
    /\ Idle(p)
    /\ pre' = [pre EXCEPT ![p] = DB]
    /\ txn' = [txn EXCEPT ![p] = NoTxn]
    /\ calls' = IF calls < MaxCalls THEN calls + 1 ELSE calls

\* The handler returns `resp` without having touched the store.
Return(p, op, input, resp) ==
    /\ pc' = [pc EXCEPT ![p] = "done"]
    /\ frame' = [frame EXCEPT ![p] = [NoFrame EXCEPT !.op = op, !.input = input]]
    /\ result' = [result EXCEPT ![p] = resp]

\* The handler goes on to the statement `next` with the locals `f`.
Proceed(p, f, next) ==
    /\ pc' = [pc EXCEPT ![p] = next]
    /\ frame' = [frame EXCEPT ![p] = f]
    /\ result' = [result EXCEPT ![p] = NoResult]

\* ------------------------------------------------------ CreateCustomer
\* Customer.objects.filter(email=...).exists()
email_taken(rows, email) == \E i \in DOMAIN rows : rows[i].email = email

\* Customer.email is unique: saving a second row with the same email raises
\* IntegrityError.
unique_email_violated(rows, email) == \E i \in DOMAIN rows : rows[i].email = email

\* The checks of schema.py 203-223 with the email check before the name
\* check.
CreateCustomer_mutate_EmailFirst(p, input) ==
    /\ Enter(p, "create_customer", input)
    /\ UNCHANGED <<customers, products, orders, origin, ledger>>
    /\ IF ~validate_email(input.email)[1]
       THEN Return(p, "create_customer", input,
                   Response(FALSE, validate_email(input.email)[2], <<>>))
       ELSE IF ~validate_name(input.name)[1]
       THEN Return(p, "create_customer", input,
                   Response(FALSE, validate_name(input.name)[2], <<>>))
       ELSE IF input.phone # <<>> /\ ~validate_phone(input.phone)[1]
       THEN Return(p, "create_customer", input,
                   Response(FALSE, validate_phone(input.phone)[2], <<>>))
       ELSE IF email_taken(customers, input.email)
       THEN Return(p, "create_customer", input,
                   Response(FALSE, "Email already exists", <<>>))
       ELSE Proceed(p, [NoFrame EXCEPT !.op = "create_customer", !.input = input],
                    "cc_save")

\* Validation and the duplicate query (schema.py 203-223).
CreateCustomer_mutate(p, input) ==
    /\ Enter(p, "create_customer", input)
    /\ UNCHANGED <<customers, products, orders, origin, ledger>>
    /\ IF ~validate_name(input.name)[1]
       THEN Return(p, "create_customer", input,
                   Response(FALSE, validate_name(input.name)[2], <<>>))
       ELSE IF ~validate_email(input.email)[1]
       THEN Return(p, "create_customer", input,
                   Response(FALSE, validate_email(input.email)[2], <<>>))
       ELSE IF input.phone # <<>> /\ ~validate_phone(input.phone)[1]
       THEN Return(p, "create_customer", input,
                   Response(FALSE, validate_phone(input.phone)[2], <<>>))
       ELSE IF email_taken(customers, input.email)
       THEN Return(p, "create_customer", input,
                   Response(FALSE, "Email already exists", <<>>))
       ELSE Proceed(p, [NoFrame EXCEPT !.op = "create_customer", !.input = input],
                    "cc_save")

\* customer.save() (schema.py 225-243).
CreateCustomer_save(p) ==
    /\ pc[p] = "cc_save"
    /\ LET input == frame[p].input
           customer == [name  |-> strip(input.name),
                        email |-> lower(input.email),
                        phone |-> input.phone]
       IN  \E fault \in FaultChoices :
             IF fault
             THEN /\ result' = [result EXCEPT ![p] =
                        Response(FALSE, "Error creating customer", <<>>)]
                  /\ frame' = [frame EXCEPT ![p].raised_at = pc[p]]
                  /\ UNCHANGED customers
             ELSE IF unique_email_violated(customers, customer.email)
             THEN /\ result' = [result EXCEPT ![p] =
                        Response(FALSE, "Error creating customer", <<>>)]
                  /\ UNCHANGED <<customers, frame>>
             ELSE /\ customers' = Append(customers, customer)
                  /\ result' = [result EXCEPT ![p] =
                        Response(TRUE, "Customer created successfully",
                                 <<Len(customers) + 1>>)]
                  /\ UNCHANGED frame
    /\ pc' = [pc EXCEPT ![p] = "done"]
    /\ UNCHANGED <<products, orders, txn, pre, calls, origin, ledger>>

\* ------------------------------------------------------- CreateProduct
\* schema.py 326-363; an omitted stock is <<>>, a given one <<n>>.
CreateProduct_mutate(p, input) ==
    /\ Enter(p, "create_product", input)
    /\ Len(products) < MaxProducts
    /\ UNCHANGED <<customers, orders, origin>>
    /\ LET stock == IF input.stock # <<>> THEN input.stock[1] ELSE 0
       IN  IF ~validate_name(input.name)[1]
           THEN /\ Return(p, "create_product", input,
                          Response(FALSE, validate_name(input.name)[2], <<>>))
                /\ UNCHANGED <<products, ledger>>
           ELSE IF ~validate_price(input.price)[1]
           THEN /\ Return(p, "create_product", input,
                          Response(FALSE, validate_price(input.price)[2], <<>>))
                /\ UNCHANGED <<products, ledger>>
           ELSE IF ~validate_stock(stock)[1]
           THEN /\ Return(p, "create_product", input,
                          Response(FALSE, validate_stock(stock)[2], <<>>))
                /\ UNCHANGED <<products, ledger>>
           ELSE \E fault \in FaultChoices :
                  IF fault
                  THEN /\ Return(p, "create_product", input,
                                 Response(FALSE, "Error creating product", <<>>))
                       /\ UNCHANGED <<products, ledger>>
                  ELSE /\ products' = Append(products,
                             [name |-> strip(input.name), price |-> input.price,
                              stock |-> stock])
                       /\ ledger' = Append(ledger, stock)
                       /\ Return(p, "create_product", input,
                                 Response(TRUE, "Product created successfully",
                                          <<Len(products) + 1>>))

\* ------------------------------------------------------------ history
\* The stock of the products `ids` in the product rows `rows`.
StockOf(rows, ids) == [id \in ids |-> rows[id].stock]

\* An entry of `origin` stays until a call other than the order's own
\* create_order and cancel_order writes the stock of one of its products.
Touch(orig, ords, ids, own) ==
    [o \in DOMAIN orig |->
        IF o # own /\ ords[o].products \cap ids # {} THEN <<>> ELSE orig[o]]

WrittenProducts(log) ==
    {log[i].id : i \in {j \in DOMAIN log : log[j].kind = "product_stock"}}

\* ----------------------------------------------- transaction.atomic exit
\* The handler of an atomic mutation has returned its response (every
\* exception is caught inside the decorated function, so the decorator
\* always sees a normal return).
\* The exit commits a transaction that is neither marked nor aborted; the
\* commit is outside the handler's try block, so a commit that fails rolls
\* back and its DatabaseError reaches the caller in place of the response.
Commits(t) == ~t.needs_rollback /\ ~t.aborted

Atomic_exit(p) ==
    /\ pc[p] = "atomic_exit"
    /\ \E fault \in FaultChoices :
          /\ fault => Commits(txn[p])
          /\ LET db == IF fault THEN DB ELSE AtomicExitDB(DB, txn[p])
                 committed == db # DB
                 ids == WrittenProducts(txn[p].log)
             IN  /\ customers' = db.customers
                 /\ products' = db.products
                 /\ orders' = db.orders
                 /\ origin' =
                      IF ~committed THEN origin
                      ELSE IF frame[p].op = "create_order"
                      THEN Append(Touch(origin, orders, ids, 0),
                                  StockOf(products, ids))
                      ELSE Touch(origin, orders, ids, frame[p].order)
          /\ result' = IF fault
                       THEN [result EXCEPT ![p] = Raised("DatabaseError")]
                       ELSE result
          /\ frame' = IF fault
                      THEN [frame EXCEPT ![p].raised_at = "atomic_exit"]
                      ELSE frame
    /\ pc' = [pc EXCEPT ![p] = "done"]
    /\ txn' = [txn EXCEPT ![p] = NoTxn]
    /\ UNCHANGED <<pre, calls, ledger>>

\* A write statement of an atomic handler: it is logged and the handler goes
\* on to `next` with loop index k, or it raises; the ORM marks the
\* transaction for rollback when save() or add() raises, and the handler's
\* `except Exception` turns the fault into the response `err`.
TxWrite(p, fault, w, err, next, k) ==
    IF fault
    THEN /\ txn' = [txn EXCEPT ![p].needs_rollback = TRUE]
         /\ result' = [result EXCEPT ![p] = Response(FALSE, err, <<>>)]
         /\ pc' = [pc EXCEPT ![p] = "atomic_exit"]
         /\ frame' = [frame EXCEPT ![p].raised_at = pc[p]]
    ELSE /\ txn' = [txn EXCEPT ![p].log = Append(@, w)]
         /\ pc' = [pc EXCEPT ![p] = next]
         /\ frame' = [frame EXCEPT ![p].k = k]
         /\ UNCHANGED result

\* A query of an atomic handler that raises: the ORM does not mark the
\* transaction; whether the database has aborted it depends on the backend
\* and on the fault.
TxReadFault(p, aborted, err) ==
    /\ txn' = [txn EXCEPT ![p].aborted = aborted]
    /\ result' = [result EXCEPT ![p] = Response(FALSE, err, <<>>)]
    /\ pc' = [pc EXCEPT ![p] = "atomic_exit"]
    /\ frame' = [frame EXCEPT ![p].raised_at = pc[p]]

\* --------------------------------------------------------- CreateOrder
\* The checks of schema.py 376-391 with the empty-list check before the
\* customer lookup.
CreateOrder_mutate_EmptyFirst(p, input) ==
    /\ Enter(p, "create_order", input)
    /\ UNCHANGED <<customers, products, orders, origin, ledger>>
    /\ IF input.product_ids = <<>>
       THEN Return(p, "create_order", input,
                   Response(FALSE, "At least one product is required", <<>>))
       ELSE IF input.customer_id \notin DOMAIN customers
       THEN Return(p, "create_order", input,
                   Response(FALSE, "Customer not found", <<>>))
       ELSE Proceed(p, [NoFrame EXCEPT !.op = "create_order", !.input = input,
                                       !.k = 1],
                    "co_product")

\* schema.py 376-391: customer lookup and the empty-list check.
CreateOrder_mutate(p, input) ==
    /\ Enter(p, "create_order", input)
    /\ UNCHANGED <<customers, products, orders, origin, ledger>>
    /\ IF input.customer_id \notin DOMAIN customers
       THEN Return(p, "create_order", input,
                   Response(FALSE, "Customer not found", <<>>))
       ELSE IF input.product_ids = <<>>
       THEN Return(p, "create_order", input,
                   Response(FALSE, "At least one product is required", <<>>))
       ELSE Proceed(p, [NoFrame EXCEPT !.op = "create_order", !.input = input,
                                       !.k = 1],
                    "co_product")

\* The product object Product.objects.get(id=product_id) builds: the row as
\* it is read now.
ProductObject(rows, product_id) ==
    [id |-> product_id, price |-> rows[product_id].price,
     stock |-> rows[product_id].stock]

\* The stock check of schema.py 402, and the check with its bound off by one.
InStock_OffByOne(product) == ~(product.stock < 0)
InStock(product) == ~(product.stock < 1)

\* schema.py 409: total_amount += product.price, and the sum overwritten.
AddPrice_Overwrite(total_amount, product) == product.price
AddPrice(total_amount, product) == total_amount + product.price

\* A one-pass loop over input.product_ids, which reserves the unit of each
\* product as soon as the product has passed its check.
CreateOrder_product_OnePass(p) ==
    /\ pc[p] = "co_product"
    /\ LET f == frame[p]
           product_id == f.input.product_ids[f.k]
       IN  IF product_id \notin DOMAIN products
           THEN /\ result' = [result EXCEPT ![p] =
                      About(Response(FALSE, "Product not found", <<>>), product_id)]
                /\ pc' = [pc EXCEPT ![p] = "atomic_exit"]
                /\ UNCHANGED <<frame, txn>>
           ELSE IF products[product_id].stock < 1
           THEN /\ result' = [result EXCEPT ![p] =
                      About(Response(FALSE, "Product is out of stock", <<>>),
                            product_id)]
                /\ pc' = [pc EXCEPT ![p] = "atomic_exit"]
                /\ UNCHANGED <<frame, txn>>
           ELSE /\ frame' = [frame EXCEPT
                      ![p].products = Append(@, ProductObject(products, product_id)),
                      ![p].total_amount = @ + products[product_id].price,
                      ![p].k = @ + 1]
                /\ txn' = [txn EXCEPT ![p].log =
                      Append(@, Write("product_stock", product_id,
                                      products[product_id].stock - 1))]
                /\ pc' = [pc EXCEPT ![p] =
                      IF f.k = Len(f.input.product_ids)
                      THEN "co_order_save" ELSE "co_product"]
                /\ UNCHANGED result
    /\ UNCHANGED <<customers, products, orders, pre, calls, origin, ledger>>

\* schema.py 397-415: one turn of the loop over input.product_ids.
CreateOrder_product(p) ==
    /\ pc[p] = "co_product"
    /\ LET f == frame[p]
           product_id == f.input.product_ids[f.k]
       IN  IF product_id \notin DOMAIN products
           THEN /\ result' = [result EXCEPT ![p] =
                      About(Response(FALSE, "Product not found", <<>>), product_id)]
                /\ pc' = [pc EXCEPT ![p] = "atomic_exit"]
                /\ UNCHANGED frame
           ELSE IF ~InStock(ProductObject(products, product_id))
           THEN /\ result' = [result EXCEPT ![p] =
                      About(Response(FALSE, "Product is out of stock", <<>>),
                            product_id)]
                /\ pc' = [pc EXCEPT ![p] = "atomic_exit"]
                /\ UNCHANGED frame
           ELSE /\ frame' = [frame EXCEPT
                      ![p].products = Append(@, ProductObject(products, product_id)),
                      ![p].total_amount =
                          AddPrice(@, ProductObject(products, product_id)),
                      ![p].k = @ + 1]
                /\ pc' = [pc EXCEPT ![p] =
                      IF f.k = Len(f.input.product_ids)
                      THEN "co_order_save" ELSE "co_product"]
                /\ UNCHANGED result
    /\ UNCHANGED <<customers, products, orders, txn, pre, calls, origin, ledger>>

\* schema.py 417-423: order.save().
CreateOrder_order_save(p) ==
    /\ pc[p] = "co_order_save"
    /\ \E fault \in FaultChoices :
          TxWrite(p, fault,
                  Write("order_insert", 0,
                        [customer |-> frame[p].input.customer_id,
                         status |-> IF frame[p].input.status # ""
                                    THEN frame[p].input.status ELSE "pending",
                         total_amount |-> frame[p].total_amount,
                         products |-> {}]),
                  "Error creating order", "co_products_add", 1)
    /\ UNCHANGED <<customers, products, orders, pre, calls, origin, ledger>>

\* schema.py 425-426: order.products.add(*products).
CreateOrder_products_add(p) ==
    /\ pc[p] = "co_products_add"
    /\ \E fault \in FaultChoices :
          TxWrite(p, fault,
                  Write("order_products", 0,
                        {frame[p].products[i].id : i \in DOMAIN frame[p].products}),
                  "Error creating order", "co_stock_save", 1)
    /\ UNCHANGED <<customers, products, orders, pre, calls, origin, ledger>>

\* The stock an order creation writes for the product object it holds
\* (schema.py 430), and the write that leaves the stock as it was read.
DecrementedStock_Same(product) == product.stock
DecrementedStock(product) == product.stock - 1

\* schema.py 428-431: one turn of the loop over the product objects.
CreateOrder_stock_save(p) ==
    /\ pc[p] = "co_stock_save"
    /\ LET f == frame[p]
           product == f.products[f.k]
       IN  \E fault \in FaultChoices :
             TxWrite(p, fault,
                     Write("product_stock", product.id, DecrementedStock(product)),
                     "Error creating order",
                     IF f.k = Len(f.products) THEN "co_refresh" ELSE "co_stock_save",
                     f.k + 1)
    /\ UNCHANGED <<customers, products, orders, pre, calls, origin, ledger>>

\* schema.py 433-440: order.refresh_from_db() and the success response.
CreateOrder_refresh(p) ==
    /\ pc[p] = "co_refresh"
    /\ \E fault \in FaultChoices :
          IF fault
          THEN \E aborted \in BOOLEAN :
                  TxReadFault(p, aborted, "Error creating order")
          ELSE /\ LET view == ApplyLog(DB, txn[p].log)
                  IN  result' = [result EXCEPT ![p] =
                          Response(TRUE, "Order created successfully",
                                   <<view.orders[Len(view.orders)]>>)]
               /\ pc' = [pc EXCEPT ![p] = "atomic_exit"]
               /\ UNCHANGED <<txn, frame>>
    /\ UNCHANGED <<customers, products, orders, pre, calls, origin, ledger>>

\* -------------------------------------------------- UpdateProductStock
\* schema.py 523: the check of the new stock, and the check refusing 0.
StockAllowed_Positive(new_stock) == ~(new_stock <= 0)
StockAllowed(new_stock) == ~(new_stock < 0)

\* schema.py 509-527: the lookup and the check of the new stock.
UpdateProductStock_mutate(p, input) ==
    /\ Enter(p, "update_product_stock", input)
    /\ UNCHANGED <<customers, products, orders, origin, ledger>>
    /\ IF input.id \notin DOMAIN products
       THEN Return(p, "update_product_stock", input,
                   Response(FALSE, "Product not found", <<>>))
       ELSE LET new_stock == products[input.id].stock + input.stock_change
            IN  /\ new_stock <= MaxStock
                /\ IF ~StockAllowed(new_stock)
                   THEN Return(p, "update_product_stock", input,
                               Response(FALSE, "Cannot reduce stock below 0", <<>>))
                   ELSE Proceed(p, [NoFrame EXCEPT !.op = "update_product_stock",
                                                   !.input = input,
                                                   !.new_stock = new_stock],
                                "ups_save")

\* A save that stores the new stock in every product row.
UpdateProductStock_save_EveryRow(p) ==
    /\ pc[p] = "ups_save"
    /\ \E fault \in FaultChoices :
          IF fault
          THEN /\ result' = [result EXCEPT ![p] =
                     Response(FALSE, "Error updating product stock", <<>>)]
               /\ frame' = [frame EXCEPT ![p].raised_at = pc[p]]
               /\ UNCHANGED <<products, origin, ledger>>
          ELSE /\ products' = [i \in DOMAIN products |->
                     [products[i] EXCEPT !.stock = frame[p].new_stock]]
               /\ origin' = Touch(origin, orders, {frame[p].input.id}, 0)
               /\ ledger' = [ledger EXCEPT ![frame[p].input.id] =
                                 @ + frame[p].input.stock_change]
               /\ result' = [result EXCEPT ![p] =
                     Response(TRUE, "Stock updated", <<frame[p].input.id>>)]
               /\ UNCHANGED frame
    /\ pc' = [pc EXCEPT ![p] = "done"]
    /\ UNCHANGED <<customers, orders, txn, pre, calls>>

\* schema.py 529-544: product.save(update_fields=['stock']), in autocommit.
UpdateProductStock_save(p) ==
    /\ pc[p] = "ups_save"
    /\ \E fault \in FaultChoices :
          IF fault
          THEN /\ result' = [result EXCEPT ![p] =
                     Response(FALSE, "Error updating product stock", <<>>)]
               /\ frame' = [frame EXCEPT ![p].raised_at = pc[p]]
               /\ UNCHANGED <<products, origin, ledger>>
          ELSE /\ products' = [products EXCEPT
                     ![frame[p].input.id].stock = frame[p].new_stock]
               /\ origin' = Touch(origin, orders, {frame[p].input.id}, 0)
               /\ ledger' = [ledger EXCEPT ![frame[p].input.id] =
                                 @ + frame[p].input.stock_change]
               /\ result' = [result EXCEPT ![p] =
                     Response(TRUE, "Stock updated", <<frame[p].input.id>>)]
               /\ UNCHANGED frame
    /\ pc' = [pc EXCEPT ![p] = "done"]
    /\ UNCHANGED <<customers, orders, txn, pre, calls>>

\* --------------------------------------------------------- CancelOrder
\* schema.py 567-578: the statuses cancel_order refuses, and the check
\* without its first test.
Cancellable_DeliveredOnly(status) == status # "delivered"
\* ... and the check without its second test.
Cancellable_CancelledOnly(status) == status # "cancelled"
Cancellable(status) == status # "cancelled" /\ status # "delivered"

\* schema.py 557-578: the lookup and the status checks.
CancelOrder_mutate(p, input) ==
    /\ Enter(p, "cancel_order", input)
    /\ UNCHANGED <<customers, products, orders, origin, ledger>>
    /\ IF input.id \notin DOMAIN orders
       THEN Return(p, "cancel_order", input,
                   Response(FALSE, "Order not found", <<>>))
       ELSE IF ~Cancellable(orders[input.id].status)
       THEN Return(p, "cancel_order", input,
                   Response(FALSE,
                            IF orders[input.id].status = "cancelled"
                            THEN "Order is already cancelled"
                            ELSE "Cannot cancel delivered orders", <<>>))
       ELSE Proceed(p, [NoFrame EXCEPT !.op = "cancel_order", !.input = input,
                                       !.order = input.id],
                    "ca_status_save")

\* schema.py 580-582: order.save(update_fields=['status']).
CancelOrder_status_save(p) ==
    /\ pc[p] = "ca_status_save"
    /\ \E fault \in FaultChoices :
          TxWrite(p, fault, Write("order_status", frame[p].order, "cancelled"),
                  "Error cancelling order", "ca_products", 1)
    /\ UNCHANGED <<customers, products, orders, pre, calls, origin, ledger>>

\* The product objects of a set of product ids, by ascending id.
RECURSIVE ProductObjects(_, _)
ProductObjects(rows, ids) ==
    IF ids = {} THEN <<>>
    ELSE LET id == CHOOSE i \in ids : \A j \in ids : i <= j
         IN  <<ProductObject(rows, id)>> \o ProductObjects(rows, ids \ {id})

\* schema.py 585: the query order.products.all(), evaluated when the loop
\* starts; it yields one object per associated product.
CancelOrder_products(p) ==
    /\ pc[p] = "ca_products"
    /\ \E fault \in FaultChoices :
          IF fault
          THEN \E aborted \in BOOLEAN :
                  TxReadFault(p, aborted, "Error cancelling order")
          ELSE /\ frame' = [frame EXCEPT
                     ![p].products =
                         ProductObjects(products, orders[frame[p].order].products),
                     ![p].k = 1]
               /\ pc' = [pc EXCEPT ![p] = "ca_stock_save"]
               /\ UNCHANGED <<txn, result>>
    /\ UNCHANGED <<customers, products, orders, pre, calls, origin, ledger>>

\* The stock a cancellation writes for the product object it holds
\* (schema.py 586), and the write without the increment.
RestockedStock_Same(product) == product.stock
RestockedStock(product) == product.stock + 1

\* schema.py 586-587: one turn of the restock loop.
CancelOrder_stock_save(p) ==
    /\ pc[p] = "ca_stock_save"
    /\ LET f == frame[p]
           product == f.products[f.k]
       IN  \E fault \in FaultChoices :
             TxWrite(p, fault,
                     Write("product_stock", product.id, RestockedStock(product)),
                     "Error cancelling order",
                     IF f.k = Len(f.products) THEN "ca_respond" ELSE "ca_stock_save",
                     f.k + 1)
    /\ UNCHANGED <<customers, products, orders, pre, calls, origin, ledger>>

\* schema.py 589-594: the success response.
CancelOrder_respond(p) ==
    /\ pc[p] = "ca_respond"
    /\ result' = [result EXCEPT ![p] =
          Response(TRUE, "Order cancelled successfully", <<frame[p].order>>)]
    /\ pc' = [pc EXCEPT ![p] = "atomic_exit"]
    /\ UNCHANGED <<customers, products, orders, frame, txn, pre, calls, origin, ledger>>

\* ------------------------------------------------- BulkCreateCustomers
\* The handler is decorated with @transaction.atomic and catches every
\* exception of a row inside its loop (schema.py 262, 302-304).  The local
\* lists keep the row number with each entry: customers holds
\* [row, customer], errors holds [row, message].

\* schema.py 255-261: the locals, and the start of the loop.
BulkCreateCustomers_mutate(p, input) ==
    /\ Enter(p, "bulk_create_customers", input)
    /\ UNCHANGED <<customers, products, orders, origin, ledger>>
    /\ Proceed(p, [NoFrame EXCEPT !.op = "bulk_create_customers",
                                  !.input = input, !.k = 1],
               IF input.customers = <<>> THEN "bc_respond" ELSE "bc_row")

\* The row is counted as failed with `message` and the loop goes on
\* (schema.py 266-268, 273-275, 281-283, 287-289, 303-304).
RowFailed(f, message) ==
    [f EXCEPT !.errors = Append(@, [row |-> f.k, message |-> message]),
              !.failed_count = @ + 1,
              !.k = @ + 1]

\* The statement after row f.k.
AfterRow(f) == IF f.k = Len(f.input.customers) THEN "bc_respond" ELSE "bc_row"

\* A query in a transaction that a failed save() has marked, or that the
\* database has aborted, raises instead of running.
Broken(t) == t.needs_rollback \/ t.aborted

\* The duplicate query of schema.py 286 looks the email up in lower case.
DuplicateKey(email) == lower(email)

\* schema.py 262-289: the validation of one row and its duplicate query,
\* which sees the rows this transaction has inserted.
BulkCreateCustomers_row(p) ==
    /\ pc[p] = "bc_row"
    /\ LET f == frame[p]
           customer_input == f.input.customers[f.k]
           view == ApplyLog(DB, txn[p].log)
       IN  IF ~validate_name(customer_input.name)[1]
           THEN /\ frame' = [frame EXCEPT ![p] =
                       RowFailed(f, validate_name(customer_input.name)[2])]
                /\ pc' = [pc EXCEPT ![p] = AfterRow(f)]
                /\ UNCHANGED txn
           ELSE IF ~validate_email(customer_input.email)[1]
           THEN /\ frame' = [frame EXCEPT ![p] =
                       RowFailed(f, validate_email(customer_input.email)[2])]
                /\ pc' = [pc EXCEPT ![p] = AfterRow(f)]
                /\ UNCHANGED txn
           ELSE IF customer_input.phone # <<>>
                   /\ ~validate_phone(customer_input.phone)[1]
           THEN /\ frame' = [frame EXCEPT ![p] =
                       RowFailed(f, validate_phone(customer_input.phone)[2])]
                /\ pc' = [pc EXCEPT ![p] = AfterRow(f)]
                /\ UNCHANGED txn
           ELSE IF Broken(txn[p])
           THEN /\ frame' = [frame EXCEPT ![p] =
                       RowFailed(f, "TransactionManagementError")]
                /\ pc' = [pc EXCEPT ![p] = AfterRow(f)]
                /\ UNCHANGED txn
           ELSE \E fault \in FaultChoices :
                  IF fault
                  THEN \E aborted \in BOOLEAN :
                         /\ txn' = [txn EXCEPT ![p].aborted = aborted]
                         /\ frame' = [frame EXCEPT ![p] =
                               [RowFailed(f, "Storage fault")
                                   EXCEPT !.raised_at = pc[p]]]
                         /\ pc' = [pc EXCEPT ![p] = AfterRow(f)]
                  ELSE IF email_taken(view.customers,
                                      DuplicateKey(customer_input.email))
                  THEN /\ frame' = [frame EXCEPT ![p] =
                              RowFailed(f, "Email already exists")]
                       /\ pc' = [pc EXCEPT ![p] = AfterRow(f)]
                       /\ UNCHANGED txn
                  ELSE /\ pc' = [pc EXCEPT ![p] = "bc_save"]
                       /\ UNCHANGED <<frame, txn>>
    /\ UNCHANGED <<customers, products, orders, result, pre, calls, origin, ledger>>

\* schema.py 291-300: customer.save() of one row.
BulkCreateCustomers_save(p) ==
    /\ pc[p] = "bc_save"
    /\ LET f == frame[p]
           customer_input == f.input.customers[f.k]
           customer == [name  |-> strip(customer_input.name),
                        email |-> lower(customer_input.email),
                        phone |-> customer_input.phone]
           view == ApplyLog(DB, txn[p].log)
       IN  \E fault \in FaultChoices :
             IF fault \/ unique_email_violated(view.customers, customer.email)
             THEN /\ txn' = [txn EXCEPT ![p].needs_rollback = TRUE]
                  /\ frame' = [frame EXCEPT ![p] =
                        [RowFailed(f, "Storage fault")
                            EXCEPT !.raised_at = pc[p]]]
             ELSE /\ txn' = [txn EXCEPT ![p].log =
                        Append(@, Write("customer_insert", 0, customer))]
                  /\ frame' = [frame EXCEPT
                        ![p].customers =
                            Append(@, [row |-> f.k, customer |-> customer]),
                        ![p].created_count = @ + 1,
                        ![p].k = @ + 1]
    /\ pc' = [pc EXCEPT ![p] = AfterRow(frame[p])]
    /\ UNCHANGED <<customers, products, orders, result, pre, calls, origin, ledger>>

\* schema.py 306-314: the response; created_count, failed_count and errors
\* are returned as the handler's locals hold them.
BulkCreateCustomers_respond(p) ==
    /\ pc[p] = "bc_respond"
    /\ result' = [result EXCEPT ![p] =
          Response(frame[p].created_count > 0, "Created customers",
                   [i \in DOMAIN frame[p].customers |->
                       frame[p].customers[i].customer])]
    /\ pc' = [pc EXCEPT ![p] = "atomic_exit"]
    /\ UNCHANGED <<customers, products, orders, frame, txn, pre, calls, origin, ledger>>

\* ------------------------------------------------------ UpdateCustomer
\* schema.py 461-482: the lookup and the validation of the given fields; an
\* omitted or empty name or phone is <<>>.  The customer object holds the
\* row as read, with the given fields replaced.
UpdateCustomer_mutate_NameFirst(p, input) ==
    \* a handler that stores the new name before it checks the phone
    /\ Enter(p, "update_customer", input)
    /\ UNCHANGED <<products, orders, origin, ledger>>
    /\ IF input.id \notin DOMAIN customers
       THEN /\ Return(p, "update_customer", input,
                      Response(FALSE, "Customer not found", <<>>))
            /\ UNCHANGED customers
       ELSE IF input.name # <<>> /\ ~validate_name(input.name)[1]
       THEN /\ Return(p, "update_customer", input,
                      Response(FALSE, validate_name(input.name)[2], <<>>))
            /\ UNCHANGED customers
       ELSE IF input.phone # <<>> /\ ~validate_phone(input.phone)[1]
       THEN /\ Return(p, "update_customer", input,
                      Response(FALSE, validate_phone(input.phone)[2], <<>>))
            /\ customers' = [customers EXCEPT ![input.id].name =
                     IF input.name # <<>> THEN strip(input.name) ELSE @]
       ELSE LET row == customers[input.id]
                customer ==
                    [name  |-> IF input.name # <<>> THEN strip(input.name)
                               ELSE row.name,
                     email |-> row.email,
                     phone |-> IF input.phone # <<>> THEN input.phone
                               ELSE row.phone]
            IN  /\ Proceed(p, [NoFrame EXCEPT !.op = "update_customer",
                                              !.input = input,
                                              !.customers = <<customer>>],
                           "uc_save")
                /\ UNCHANGED customers

UpdateCustomer_mutate(p, input) ==
    /\ Enter(p, "update_customer", input)
    /\ UNCHANGED <<customers, products, orders, origin, ledger>>
    /\ IF input.id \notin DOMAIN customers
       THEN Return(p, "update_customer", input,
                   Response(FALSE, "Customer not found", <<>>))
       ELSE IF input.name # <<>> /\ ~validate_name(input.name)[1]
       THEN Return(p, "update_customer", input,
                   Response(FALSE, validate_name(input.name)[2], <<>>))
       ELSE IF input.phone # <<>> /\ ~validate_phone(input.phone)[1]
       THEN Return(p, "update_customer", input,
                   Response(FALSE, validate_phone(input.phone)[2], <<>>))
       ELSE LET row == customers[input.id]
                customer ==
                    [name  |-> IF input.name # <<>> THEN strip(input.name)
                               ELSE row.name,
                     email |-> row.email,
                     phone |-> IF input.phone # <<>> THEN input.phone
                               ELSE row.phone]
            IN  Proceed(p, [NoFrame EXCEPT !.op = "update_customer",
                                           !.input = input,
                                           !.customers = <<customer>>],
                        "uc_save")

\* schema.py 484-496: customer.save(), in autocommit.
UpdateCustomer_save(p) ==
    /\ pc[p] = "uc_save"
    /\ \E fault \in FaultChoices :
          IF fault
          THEN /\ result' = [result EXCEPT ![p] =
                     Response(FALSE, "Error updating customer", <<>>)]
               /\ frame' = [frame EXCEPT ![p].raised_at = pc[p]]
               /\ UNCHANGED customers
          ELSE /\ customers' = [customers EXCEPT
                     ![frame[p].input.id] = frame[p].customers[1]]
               /\ result' = [result EXCEPT ![p] =
                     Response(TRUE, "Customer updated successfully",
                              <<frame[p].input.id>>)]
               /\ UNCHANGED frame
    /\ pc' = [pc EXCEPT ![p] = "done"]
    /\ UNCHANGED <<products, orders, txn, pre, calls, origin, ledger>>

\* ------------------------------------------------------------ the inputs
MaxIds == 2           \* longest product_ids list of a create_order

RECURSIVE SeqsUpTo(_, _)
SeqsUpTo(S, n) ==
    IF n = 0 THEN {<<>>}
    ELSE LET shorter == SeqsUpTo(S, n - 1)
         IN  shorter \cup {Append(q, x) : q \in {r \in shorter : Len(r) = n - 1}, x \in S}

CustomerInputs ==
    {[name |-> <<"A", "l">>, email |-> <<"a", "@", "b", ".", "i", "o">>,
      phone |-> <<>>]}
ProductInputs ==
    [name : {<<"P">>, <<" ">>}, price : {0, 1, 2},
     stock : {<<>>} \cup {<<n>> : n \in (-1)..MaxStock}]
OrderInputs ==
    [customer_id : {1}, product_ids : SeqsUpTo(1..MaxProducts, MaxIds),
     status : {"", "processing", "shipped", "delivered", "cancelled", "bogus"}]
StockInputs ==
    [id : 1..MaxProducts, stock_change : (0 - MaxStock - 1)..MaxStock]
CancelInputs ==
    [id : 1..MaxOrders, reason : {<<>>}]

\* ------------------------------------------------------- specifications
\* The steps of the handler worker p is running.
Step(p) ==
    \/ CreateCustomer_save(p)
    \/ CreateOrder_product(p)
    \/ CreateOrder_order_save(p)
    \/ CreateOrder_products_add(p)
    \/ CreateOrder_stock_save(p)
    \/ CreateOrder_refresh(p)
    \/ UpdateProductStock_save(p)
    \/ CancelOrder_status_save(p)
    \/ CancelOrder_products(p)
    \/ CancelOrder_stock_save(p)
    \/ CancelOrder_respond(p)
    \/ Atomic_exit(p)

\* A request arrives at worker p.
Call(p) ==
    \/ \E input \in CustomerInputs : CreateCustomer_mutate(p, input)
    \/ \E input \in ProductInputs : CreateProduct_mutate(p, input)
    \/ /\ Len(orders) < MaxOrders
       /\ \E input \in OrderInputs : CreateOrder_mutate(p, input)
    \/ \E input \in StockInputs : UpdateProductStock_mutate(p, input)
    \/ \E input \in CancelInputs : CancelOrder_mutate(p, input)

\* One request at a time: every call runs to its response before the next.
Next == Call("w1") \/ Step("w1")
Spec == Init /\ [][Next]_vars

\* Concurrent requests.  The store the requests find is any store of one
\* customer, one or two products and at most one pending order; Spec reaches
\* each of them.  The workers take up to MaxCalls calls in all and their
\* handlers interleave statement by statement.
Alice == [name |-> <<"A", "l">>, email |-> <<"a", "@", "b", ".", "i", "o">>,
          phone |-> <<>>]
SeedProduct(price, stock) == [name |-> <<"P">>, price |-> price, stock |-> stock]
SeedProducts ==
    {<<SeedProduct(1, s1)>> : s1 \in 0..MaxStock}
    \cup {<<SeedProduct(1, s1), SeedProduct(2, s2)>> :
             s1 \in 0..MaxStock, s2 \in 0..MaxStock}
RECURSIVE PriceSum(_, _)
PriceSum(rows, ids) ==
    IF ids = {} THEN 0
    ELSE LET id == CHOOSE i \in ids : TRUE
         IN  rows[id].price + PriceSum(rows, ids \ {id})
SeedOrders(rows) ==
    {<<>>} \cup
    {<<[customer |-> 1, status |-> "pending",
        total_amount |-> PriceSum(rows, ids), products |-> ids]>> :
       ids \in (SUBSET DOMAIN rows) \ {{}}}

InitConc ==
    /\ customers = <<Alice>>
    /\ products \in SeedProducts
    /\ orders \in SeedOrders(products)
    /\ pc = [p \in Procs |-> "idle"]
    /\ frame = [p \in Procs |-> NoFrame]
    /\ txn = [p \in Procs |-> NoTxn]
    /\ result = [p \in Procs |-> NoResult]
    /\ pre = [p \in Procs |-> DB]
    /\ origin = [o \in DOMAIN orders |-> <<>>]
    /\ calls = 0
    /\ ledger = [i \in DOMAIN products |->
                   products[i].stock
                   + Cardinality({o \in DOMAIN orders :
                                    /\ i \in orders[o].products
                                    /\ orders[o].status # "cancelled"})]

ConcProductInputs ==
    [name : {<<"P">>}, price : {1}, stock : {<<>>, <<-1>>, <<MaxStock>>}]
ConcOrderInputs ==
    [customer_id : {1}, product_ids : SeqsUpTo(1..MaxProducts, MaxIds),
     status : {""}]
ConcStockInputs ==
    [id : 1..MaxProducts, stock_change : {-1, 1}]

CallConc(p) ==
    /\ calls < MaxCalls
    /\ \/ \E input \in ConcProductInputs : CreateProduct_mutate(p, input)
       \/ \E input \in ConcOrderInputs : CreateOrder_mutate(p, input)
       \/ \E input \in ConcStockInputs : UpdateProductStock_mutate(p, input)
       \/ \E input \in CancelInputs : CancelOrder_mutate(p, input)

StepConc(p) ==
    \/ CreateOrder_product(p)
    \/ CreateOrder_order_save(p)
    \/ CreateOrder_products_add(p)
    \/ CreateOrder_stock_save(p)
    \/ CreateOrder_refresh(p)
    \/ UpdateProductStock_save(p)
    \/ CancelOrder_status_save(p)
    \/ CancelOrder_products(p)
    \/ CancelOrder_stock_save(p)
    \/ CancelOrder_respond(p)
    \/ Atomic_exit(p)

NextConc == \E p \in Procs : CallConc(p) \/ StepConc(p)
SpecConc == InitConc /\ [][NextConc]_vars

\* The customer mutations alone, one request at a time, from the empty
\* store.  The rows differ in every field the checks look at: a blank name,
\* two spellings of one email, a malformed email, a malformed phone.
MaxRows == 2          \* longest customers list of a bulk_create_customers

PhoneOk == <<"+", "1", "2", "3", "4", "5", "6", "7">>
CustomerRows ==
    [name  : {<<"A", "l">>, <<" ">>},
     email : {<<"a", "@", "b", ".", "i", "o">>, <<"A", "@", "b", ".", "i", "o">>,
              <<"c", "@", "b", ".", "i", "o">>, <<"a", "@", "b">>},
     phone : {<<>>, PhoneOk, <<"1">>}]
\* The rows of a bulk call: three good rows, two of them with one email in
\* two spellings, and one row for each validation failure.
BulkRows ==
    {r \in CustomerRows :
        \/ r.name = <<"A", "l">> /\ r.phone = <<>>
        \/ r.name = <<" ">> /\ r.phone = PhoneOk /\ r.email[1] = "a" /\ Len(r.email) = 6
        \/ r.name = <<"A", "l">> /\ r.phone = <<"1">> /\ r.email[1] = "c"}
BulkInputs == [customers : SeqsUpTo(BulkRows, MaxRows)]
UpdateCustomerInputs ==
    [id : {1, 2}, name : {<<>>, <<" ">>, <<" ", "B">>},
     phone : {<<>>, PhoneOk, <<"1">>}]

StepCustomers(p) ==
    \/ CreateCustomer_save(p)
    \/ BulkCreateCustomers_row(p)
    \/ BulkCreateCustomers_save(p)
    \/ BulkCreateCustomers_respond(p)
    \/ UpdateCustomer_save(p)
    \/ Atomic_exit(p)

CallCustomers(p) ==
    \/ \E input \in CustomerRows : CreateCustomer_mutate(p, input)
    \/ \E input \in BulkInputs : BulkCreateCustomers_mutate(p, input)
    \/ \E input \in UpdateCustomerInputs : UpdateCustomer_mutate(p, input)

NextCustomers == CallCustomers("w1") \/ StepCustomers("w1")
SpecCustomers == Init /\ [][NextCustomers]_vars

\* ------------------------------------------------- Query.total_revenue
\* models.Sum('total_amount') over the rows of a queryset: SQL SUM is NULL
\* (None, here <<>>) over no row, else <<the sum>>.
RECURSIVE Sum_total_amount(_)
Sum_total_amount(rows) ==
    IF rows = <<>> THEN <<>>
    ELSE LET rest == Sum_total_amount(Tail(rows))
         IN  <<Head(rows).total_amount + (IF rest = <<>> THEN 0 ELSE rest[1])>>

\* schema.py 733-737: filter(status__in=['delivered', 'shipped']), the
\* aggregate, and `total or Decimal('0')` on the order rows `rows`.
resolve_total_revenue(rows) ==
    LET InStatus(order) == order.status \in {"delivered", "shipped"}
        total == Sum_total_amount(SelectSeq(rows, InStatus))
    IN  IF total = <<>> \/ total[1] = 0 THEN 0 ELSE total[1]

\* The totalRevenue field is resolved for worker p; a failing query raises
\* out of the resolver.
Query_total_revenue(p) ==
    /\ Enter(p, "total_revenue", <<>>)
    /\ \E fault \in FaultChoices :
          Return(p, "total_revenue", <<>>,
                 IF fault THEN Raised("DatabaseError")
                 ELSE Response(TRUE, "", <<resolve_total_revenue(orders)>>))
    /\ UNCHANGED <<customers, products, orders, origin, ledger>>

\* The revenue query among the order mutations, one request at a time.  The
\* store the requests find holds two products and up to MaxSeedOrders
\* orders of one product each, pending, shipped or delivered (create_order
\* takes each of these as its status input); one more order can be created.
MaxSeedOrders == 2

RevenueProducts == <<SeedProduct(1, 1), SeedProduct(2, 1)>>
RevenueOrderRows ==
    {[customer |-> 1, status |-> st,
      total_amount |-> RevenueProducts[id].price, products |-> {id}] :
        st \in {"pending", "shipped", "delivered"}, id \in {1, 2}}
InitRevenue ==
    /\ customers = <<Alice>>
    /\ products = RevenueProducts
    /\ orders \in SeqsUpTo(RevenueOrderRows, MaxSeedOrders)
    /\ pc = [p \in Procs |-> "idle"]
    /\ frame = [p \in Procs |-> NoFrame]
    /\ txn = [p \in Procs |-> NoTxn]
    /\ result = [p \in Procs |-> NoResult]
    /\ pre = [p \in Procs |-> DB]
    /\ origin = [o \in DOMAIN orders |-> <<>>]
    /\ calls = 0
    /\ ledger = [i \in DOMAIN products |->
                   products[i].stock
                   + Cardinality({o \in DOMAIN orders :
                                    i \in orders[o].products})]

RevenueOrderInputs ==
    [customer_id : {1}, product_ids : {<<1>>, <<2, 1>>},
     status : {"", "shipped"}]
RevenueStockInputs == [id : {1}, stock_change : {-1, 1}]
RevenueCancelInputs == [id : 1..(MaxSeedOrders + 1), reason : {<<>>}]

CallRevenue(p) ==
    \/ /\ Len(orders) <= MaxSeedOrders
       /\ \E input \in RevenueOrderInputs : CreateOrder_mutate(p, input)
    \/ \E input \in RevenueStockInputs : UpdateProductStock_mutate(p, input)
    \/ \E input \in RevenueCancelInputs : CancelOrder_mutate(p, input)
    \/ Query_total_revenue(p)

NextRevenue == CallRevenue("w1") \/ StepConc("w1")
SpecRevenue == InitRevenue /\ [][NextRevenue]_vars

\* =============================================================== claims
Done(p, op) == pc[p] = "done" /\ frame[p].op = op

\* C1: in every reachable state every product's stock is >= 0, also when
\* the reads and the writes of concurrent calls interleave.
C1_StockNonNegative == \A i \in DOMAIN products : products[i].stock >= 0

\* C1 witness: two overlapping create_order calls have both read stock 1 of
\* product 1 and both committed.
C1_Witness ==
    /\ \A p \in Procs :
          /\ Done(p, "create_order") /\ result[p].success
          /\ frame[p].products = <<[id |-> 1, price |-> 1, stock |-> 1]>>
    /\ products[1].stock = 0

\* C2 (as claimed): of the create_order calls that reference product 1 once
\* and found it with stock 1, at most one succeeds.
C2_AtMostStockSucceed ==
    (\A p \in Procs :
        /\ Done(p, "create_order")
        /\ frame[p].input.product_ids = <<1>>
        /\ pre[p].products[1].stock = 1
        /\ pre[p].orders = <<>>)
    => \E p \in Procs : ~result[p].success

\* The store is as it was when worker p was called.
StoreUnchanged(p) == DB = pre[p]

DomainFailures ==
    {"Customer not found", "At least one product is required",
     "Product not found", "Product is out of stock"}

\* C3: a create_order that fails on the customer, the empty list, a missing
\* product or a product without stock leaves the whole store unchanged.
C3_FailedCreateOrderNoChange ==
    \A p \in Procs :
        (Done(p, "create_order") /\ result[p].message \in DomainFailures)
        => StoreUnchanged(p)

\* C3 witness: the second product of the list is out of stock after the
\* first one has passed its check.
C3_Witness ==
    /\ Done("w1", "create_order")
    /\ result["w1"].message = "Product is out of stock"
    /\ frame["w1"].k = 2
    /\ Len(frame["w1"].products) = 1

\* The sum of the prices in `rows` over every entry of the list `ids`.
RECURSIVE SumPrices(_, _)
SumPrices(rows, ids) ==
    IF ids = <<>> THEN 0 ELSE rows[Head(ids)].price + SumPrices(rows, Tail(ids))

\* C4: the order a successful create_order persists has total_amount = the
\* sum, over every entry of product_ids, of the product's price at the call.
C4_TotalIsSumOfPrices ==
    \A p \in Procs :
        (Done(p, "create_order") /\ result[p].success)
        => /\ Len(orders) = Len(pre[p].orders) + 1
           /\ orders[Len(orders)].total_amount =
                 SumPrices(pre[p].products, frame[p].input.product_ids)
           /\ result[p].payload[1].total_amount =
                 SumPrices(pre[p].products, frame[p].input.product_ids)

\* C4 witness: an order of two products of different price.
C4_Witness ==
    /\ Done("w1", "create_order") /\ result["w1"].success
    /\ frame["w1"].input.product_ids = <<1, 2>>
    /\ products[1].price # products[2].price
    /\ orders[Len(orders)].total_amount = 3

\* C5 (as claimed): create_order with the same product twice takes 2 units
\* and totals 2 * price when stock >= 2, and otherwise fails as out of stock
\* and takes nothing.
C5_DuplicateTakesTwoUnits ==
    \A p \in Procs :
        (/\ Done(p, "create_order")
         /\ frame[p].input.product_ids = <<1, 1>>
         /\ frame[p].input.customer_id \in DOMAIN pre[p].customers
         /\ 1 \in DOMAIN pre[p].products
         /\ frame[p].raised_at = "")
        => IF pre[p].products[1].stock >= 2
           THEN /\ result[p].success
                /\ products[1].stock = pre[p].products[1].stock - 2
                /\ orders[Len(orders)].total_amount = 2 * products[1].price
           ELSE /\ ~result[p].success
                /\ result[p].message = "Product is out of stock"
                /\ products[1].stock = pre[p].products[1].stock

\* C6: a fault raised by order.products.add() or by the save() of a stock
\* decrement leaves, once the call has returned, no order of this call and
\* every stock as it was before the call.
C6_FaultRollsBackCreateOrder ==
    \A p \in Procs :
        (/\ Done(p, "create_order")
         /\ frame[p].raised_at \in {"co_products_add", "co_stock_save"})
        => StoreUnchanged(p)

\* C6 witness: the save() of the second stock decrement has raised, after
\* the order, its products and the first decrement were written.
C6_Witness ==
    /\ Done("w1", "create_order")
    /\ frame["w1"].raised_at = "co_stock_save"
    /\ frame["w1"].k = 2
    /\ ~result["w1"].success

\* C7: after create_order and a successful cancel_order of that order, with
\* no other write to the stock of its products, every product of the order
\* has the stock it had before the create_order.
C7_RoundTrip ==
    \A p \in Procs :
        (/\ Done(p, "cancel_order") /\ result[p].success
         /\ origin[frame[p].order] # <<>>)
        => \A id \in DOMAIN origin[frame[p].order] :
              products[id].stock = origin[frame[p].order][id]

\* C7 witness: the cancelled order was created with product 1 twice in
\* product_ids.
C7_Witness ==
    /\ Done("w1", "cancel_order") /\ result["w1"].success
    /\ origin[frame["w1"].order] # <<>>
    /\ orders[frame["w1"].order].products = {1}
    /\ orders[frame["w1"].order].total_amount = 2 * products[1].price

\* C8: cancel_order on a delivered or cancelled order fails and leaves the
\* order's status and every stock unchanged (so the second of two cancel
\* calls fails and keeps what the first produced).
C8_TerminalCancelFails ==
    \A p \in Procs :
        (/\ Done(p, "cancel_order")
         /\ frame[p].input.id \in DOMAIN pre[p].orders
         /\ pre[p].orders[frame[p].input.id].status \in {"delivered", "cancelled"})
        => /\ ~result[p].success
           /\ StoreUnchanged(p)

\* C8 witness: the second cancel_order of an order; the first one restocked
\* product 1 (the order was created as pending and is cancelled now).
C8_Witness ==
    /\ Done("w1", "cancel_order")
    /\ result["w1"].message = "Order is already cancelled"
    /\ origin[frame["w1"].input.id] # <<>>
    /\ StoreUnchanged("w1")

\* C9 (as claimed): a fault after the status was saved as cancelled and
\* before every product is restocked leaves the status and every stock as
\* they were before the call.
C9_CancelAllOrNothing ==
    \A p \in Procs :
        (/\ Done(p, "cancel_order")
         /\ frame[p].raised_at \in {"ca_products", "ca_stock_save"})
        => StoreUnchanged(p)

\* C10: update_product_stock on an existing product succeeds exactly when
\* stock + stock_change >= 0 and then stores stock + stock_change; otherwise
\* it fails and the stock is unchanged.
C10_StockUpdate ==
    \A p \in Procs :
        (/\ Done(p, "update_product_stock")
         /\ frame[p].input.id \in DOMAIN pre[p].products
         /\ frame[p].raised_at = "")
        => LET old == pre[p].products[frame[p].input.id].stock
               new == old + frame[p].input.stock_change
           IN  /\ result[p].success <=> new >= 0
               /\ products[frame[p].input.id].stock =
                     IF new >= 0 THEN new ELSE old
               /\ ~result[p].success => StoreUnchanged(p)

\* C10 witness: a stock_change below -stock on a product that has stock.
C10_Witness ==
    /\ Done("w1", "update_product_stock")
    /\ result["w1"].message = "Cannot reduce stock below 0"
    /\ products[frame["w1"].input.id].stock >= 1

\* C11: an order whose status is cancelled or delivered keeps that status
\* in every later step, and a cancel_order of a pending, processing or
\* shipped order that meets no storage fault succeeds and leaves the order
\* cancelled.
C11_CancelFromOpen ==
    \A p \in Procs :
        (/\ Done(p, "cancel_order")
         /\ frame[p].input.id \in DOMAIN pre[p].orders
         /\ pre[p].orders[frame[p].input.id].status
               \in {"pending", "processing", "shipped"}
         /\ frame[p].raised_at = "")
        => /\ result[p].success
           /\ orders[frame[p].input.id].status = "cancelled"
C11_TerminalStep ==
    \A o \in DOMAIN orders :
        orders[o].status \in {"cancelled", "delivered"}
        => /\ o \in DOMAIN orders'
           /\ orders'[o].status = orders[o].status
C11_StatusTerminal == [](C11_CancelFromOpen) /\ [][C11_TerminalStep]_vars

\* C11 witness: a shipped order has been cancelled.
C11_Witness ==
    /\ Done("w1", "cancel_order") /\ result["w1"].success
    /\ pre["w1"].orders[frame["w1"].input.id].status = "shipped"
    /\ orders[frame["w1"].input.id].status = "cancelled"

Statuses == {"pending", "processing", "shipped", "delivered", "cancelled"}

\* C12 (as claimed): every persisted order's status is one of pending,
\* processing, shipped, delivered, cancelled whatever status create_order is
\* given, and an order created without a status is pending.
C12_StatusInEnum ==
    /\ \A o \in DOMAIN orders : orders[o].status \in Statuses
    /\ \A p \in Procs :
          (Done(p, "create_order") /\ result[p].success
           /\ frame[p].input.status = "")
          => orders[Len(orders)].status = "pending"

\* What each call makes of a stock x when it runs alone.
SerialCancel(x) == x + 1
SerialCreate(x) == IF x < 1 THEN x ELSE x - 1
SerialUpdate(x, change) == IF x + change < 0 THEN x ELSE x + change

\* C13 (as claimed): when a successful cancel_order that restocks product t
\* and a create_order of <<t>> or an update_product_stock of t start from the
\* same store, the final stock of t is what the two calls produce when run
\* one after the other in one of the two orders.
C13_RestockSerializable ==
    \A p \in Procs, q \in Procs :
        (/\ p # q
         /\ Done(p, "cancel_order") /\ result[p].success
         /\ pc[q] = "done" /\ pre[p] = pre[q]
         /\ frame[p].raised_at = "" /\ frame[q].raised_at = "")
        => LET before == pre[p]
               restocked == before.orders[frame[p].input.id].products
           IN  /\ (frame[q].op = "update_product_stock"
                   /\ frame[q].input.id \in restocked)
                  => LET t == frame[q].input.id
                         x == before.products[t].stock
                         c == frame[q].input.stock_change
                     IN  products[t].stock \in
                            {SerialUpdate(SerialCancel(x), c),
                             SerialCancel(SerialUpdate(x, c))}
               /\ (frame[q].op = "create_order"
                   /\ Len(frame[q].input.product_ids) = 1
                   /\ frame[q].input.product_ids[1] \in restocked)
                  => LET t == frame[q].input.product_ids[1]
                         x == before.products[t].stock
                     IN  products[t].stock \in
                            {SerialCreate(SerialCancel(x)),
                             SerialCancel(SerialCreate(x))}

\* C14 (as claimed): every call ends with a response and never with an
\* exception; a response with success = false has a message and no payload,
\* a response with success = true has its payload.
C14_AlwaysOutcome ==
    \A p \in Procs :
        pc[p] = "done"
        => /\ ~result[p].raised
           /\ result[p].message # ""
           /\ result[p].success => result[p].payload # <<>>
           /\ ~result[p].success => result[p].payload = <<>>

\* The row passes the three validations of a customer.
ValidRow(row) ==
    /\ validate_name(row.name)[1]
    /\ validate_email(row.email)[1]
    /\ row.phone # <<>> => validate_phone(row.phone)[1]

\* C15 (as claimed): every stored email is lowercase, no two customers have
\* the same email, and a create_customer of a valid row whose email equals a
\* stored email up to letter case fails as "already exists" and creates
\* nothing.
C15_EmailsUniqueLowercase ==
    /\ \A i \in DOMAIN customers : customers[i].email = lower(customers[i].email)
    /\ \A i, j \in DOMAIN customers :
          i # j => customers[i].email # customers[j].email
    /\ \A p \in Procs :
          (/\ Done(p, "create_customer")
           /\ frame[p].raised_at = ""
           /\ ValidRow(frame[p].input)
           /\ \E i \in DOMAIN pre[p].customers :
                 lower(pre[p].customers[i].email) = lower(frame[p].input.email))
          => /\ ~result[p].success
             /\ result[p].message = "Email already exists"
             /\ StoreUnchanged(p)

\* C16 (as claimed): when a storage fault occurs on a row of a
\* bulk_create_customers call after an earlier row of the call was created,
\* the store holds, once the call has returned, the customers it held before
\* the call.
C16_FaultRollsBackBulk ==
    \A p \in Procs :
        (/\ Done(p, "bulk_create_customers")
         /\ \E e \in DOMAIN frame[p].errors, c \in DOMAIN frame[p].customers :
               /\ frame[p].errors[e].message = "Storage fault"
               /\ frame[p].customers[c].row < frame[p].errors[e].row)
        => customers = pre[p].customers

\* The rows of `rows` from number k on that are valid and whose email, in
\* lower case, is not in `seen` and not the email of an earlier such row.
RECURSIVE RowsToCreate(_, _, _)
RowsToCreate(rows, k, seen) ==
    IF k > Len(rows) THEN {}
    ELSE IF ValidRow(rows[k]) /\ lower(rows[k].email) \notin seen
    THEN {k} \cup RowsToCreate(rows, k + 1, seen \cup {lower(rows[k].email)})
    ELSE RowsToCreate(rows, k + 1, seen)

\* C17 (as claimed): a bulk_create_customers call creates exactly the rows
\* that are valid and duplicate no stored email and no earlier row;
\* created_count + failed_count is the number of rows, the returned list has
\* created_count customers, the store has created_count customers more than
\* before, and success = (created_count > 0).
C17_BulkCounts ==
    \A p \in Procs :
        (Done(p, "bulk_create_customers") /\ ~result[p].raised)
        => LET f == frame[p]
               rows == f.input.customers
               stored == {pre[p].customers[i].email : i \in DOMAIN pre[p].customers}
           IN  /\ {f.customers[i].row : i \in DOMAIN f.customers}
                     = RowsToCreate(rows, 1, stored)
               /\ f.created_count + f.failed_count = Len(rows)
               /\ Len(result[p].payload) = f.created_count
               /\ Len(customers) = Len(pre[p].customers) + f.created_count
               /\ result[p].success <=> f.created_count > 0

\* C18: create_customer checks the name, then the email, then the phone,
\* then the duplicate query; the response carries the error of the first
\* check that fails, and then no customer is created.
C18_FirstFailingCheck ==
    \A p \in Procs :
        Done(p, "create_customer")
        => LET input == frame[p].input
               first ==
                   IF ~validate_name(input.name)[1]
                   THEN "Name cannot be empty"
                   ELSE IF ~validate_email(input.email)[1]
                   THEN "Invalid email format"
                   ELSE IF input.phone # <<>> /\ ~validate_phone(input.phone)[1]
                   THEN "Invalid phone format"
                   ELSE IF email_taken(pre[p].customers, input.email)
                   THEN "Email already exists"
                   ELSE ""
           IN  first # ""
               => /\ ~result[p].success
                  /\ result[p].message = first
                  /\ StoreUnchanged(p)

\* C18 witness: a row with a blank name, a malformed email and a malformed
\* phone is refused for its name.
C18_Witness ==
    /\ Done("w1", "create_customer")
    /\ frame["w1"].input =
          [name |-> <<" ">>, email |-> <<"a", "@", "b">>, phone |-> <<"1">>]
    /\ result["w1"].message = "Name cannot be empty"
    /\ customers # <<>>

\* C19: a successful create_order of pairwise distinct products, running
\* alone, lowers the stock of each of them by exactly 1, associates exactly
\* them with the new order, and leaves every other stock and every order
\* that existed as they were.
C19_DistinctOrderFrame ==
    \A p \in Procs :
        (/\ Done(p, "create_order") /\ result[p].success
         /\ \A q \in Procs \ {p} : pc[q] = "idle"
         /\ \A i, j \in DOMAIN frame[p].input.product_ids :
               i # j => frame[p].input.product_ids[i] # frame[p].input.product_ids[j])
        => LET ids == Range(frame[p].input.product_ids)
           IN  /\ DOMAIN products = DOMAIN pre[p].products
               /\ \A i \in DOMAIN products :
                     products[i].stock =
                        pre[p].products[i].stock - (IF i \in ids THEN 1 ELSE 0)
               /\ Len(orders) = Len(pre[p].orders) + 1
               /\ orders[Len(orders)].products = ids
               /\ \A o \in DOMAIN pre[p].orders : orders[o] = pre[p].orders[o]

\* C19 witness: an order of product 1 alone is created in a store that has
\* two products and an earlier order.
C19_Witness ==
    /\ Done("w1", "create_order") /\ result["w1"].success
    /\ pc["w2"] = "idle"
    /\ frame["w1"].input.product_ids = <<1>>
    /\ Len(products) = 2 /\ Len(orders) = 2
    /\ products[1].stock = pre["w1"].products[1].stock - 1

\* C20: a create_order that meets no storage fault reports the first failing
\* check: the missing customer, then the empty product_ids, then the first
\* entry of product_ids, in input order, that is missing or has stock < 1.
C20_FirstFailingCheck ==
    \A p \in Procs :
        (Done(p, "create_order") /\ frame[p].raised_at = "")
        => LET ids == frame[p].input.product_ids
               rows == pre[p].products
               bad == {i \in DOMAIN ids :
                          \/ ids[i] \notin DOMAIN rows
                          \/ rows[ids[i]].stock < 1}
           IN  IF frame[p].input.customer_id \notin DOMAIN pre[p].customers
               THEN result[p].message = "Customer not found"
               ELSE IF ids = <<>>
               THEN result[p].message = "At least one product is required"
               ELSE IF bad = {}
               THEN result[p].success
               ELSE LET first == CHOOSE i \in bad : \A j \in bad : i <= j
                    IN  /\ ~result[p].success
                        /\ result[p].subject = ids[first]
                        /\ result[p].message =
                              IF ids[first] \notin DOMAIN rows
                              THEN "Product not found"
                              ELSE "Product is out of stock"

\* C20 witness: product 1 is out of stock and product 2, listed after it,
\* does not exist.
C20_Witness ==
    /\ Done("w1", "create_order")
    /\ frame["w1"].input.product_ids = <<1, 2>>
    /\ Len(products) = 1
    /\ result["w1"].message = "Product is out of stock"
    /\ result["w1"].subject = 1

\* C21: an order keeps its total_amount, its customer and its set of
\* products in every step after its creation, and a successful cancel_order
\* changes nothing but the status of its order and the stock of the
\* products of that order.
C21_OrderFrameStep ==
    \A o \in DOMAIN orders :
        /\ o \in DOMAIN orders'
        /\ orders'[o].total_amount = orders[o].total_amount
        /\ orders'[o].customer = orders[o].customer
        /\ orders'[o].products = orders[o].products
C21_CancelFrame ==
    \A p \in Procs :
        (Done(p, "cancel_order") /\ result[p].success)
        => LET o == frame[p].order
           IN  /\ customers = pre[p].customers
               /\ orders = [pre[p].orders EXCEPT ![o].status = orders[o].status]
               /\ DOMAIN products = DOMAIN pre[p].products
               /\ \A i \in DOMAIN products :
                     /\ products[i].name = pre[p].products[i].name
                     /\ products[i].price = pre[p].products[i].price
                     /\ i \notin orders[o].products
                           => products[i].stock = pre[p].products[i].stock
C21_OrderFrame == [](C21_CancelFrame) /\ [][C21_OrderFrameStep]_vars

\* C21 witness: a cancelled order of product 1 alone, with a second product
\* in the store, its total_amount and its product set as created.
C21_Witness ==
    /\ Done("w1", "cancel_order") /\ result["w1"].success
    /\ Len(products) = 2
    /\ orders[frame["w1"].order].products = {1}
    /\ orders[frame["w1"].order].total_amount = products[1].price
    /\ products[1].stock = pre["w1"].products[1].stock + 1

\* C22: a finished update_product_stock, successful or not, has changed
\* nothing but the stock of the product it names: customers, orders and
\* every other product are as they were when the call started.
C22_StockUpdateFrame ==
    \A p \in Procs :
        Done(p, "update_product_stock")
        => /\ customers = pre[p].customers
           /\ orders = pre[p].orders
           /\ DOMAIN products = DOMAIN pre[p].products
           /\ \A i \in DOMAIN products :
                 IF i = frame[p].input.id
                 THEN products[i] =
                         [pre[p].products[i] EXCEPT !.stock = products[i].stock]
                 ELSE products[i] = pre[p].products[i]
           /\ ~result[p].success => products = pre[p].products

\* C22 witness: a stock update of one of two products with different
\* stocks has succeeded while an order exists.
C22_Witness ==
    /\ Done("w1", "update_product_stock") /\ result["w1"].success
    /\ Len(products) = 2 /\ Len(orders) = 1
    /\ products[frame["w1"].input.id].stock
          # pre["w1"].products[frame["w1"].input.id].stock
    /\ products[1].stock # products[2].stock

\* A product name with no character other than blanks.
BlankName(name) == \A i \in DOMAIN name : name[i] = " "

\* C26: every stored product has price > 0 and stock >= 0; a successful
\* create_product stores the given price and the given stock, or stock 0
\* when none is given; a create_product with a blank name, a price <= 0 or
\* a negative stock fails and stores nothing; and no step changes the price
\* of a stored product.
C26_ProductsValid ==
    /\ \A i \in DOMAIN products :
          products[i].price > 0 /\ products[i].stock >= 0
    /\ \A p \in Procs :
          Done(p, "create_product")
          => LET input == frame[p].input
                 invalid == \/ BlankName(input.name)
                            \/ input.price <= 0
                            \/ (input.stock # <<>> /\ input.stock[1] < 0)
             IN  /\ invalid => ~result[p].success
                 /\ ~result[p].success => StoreUnchanged(p)
                 /\ result[p].success
                       => /\ Len(products) = Len(pre[p].products) + 1
                          /\ products[Len(products)].price = input.price
                          /\ products[Len(products)].stock =
                                IF input.stock = <<>> THEN 0 ELSE input.stock[1]
C26_PriceStep ==
    \A i \in DOMAIN products :
        i \in DOMAIN products' /\ products'[i].price = products[i].price
C26_ProductInvariants == [](C26_ProductsValid) /\ [][C26_PriceStep]_vars

\* C26 witness: a product created without a stock input, stored with
\* stock 0, after an earlier product.
C26_Witness ==
    /\ Done("w1", "create_product") /\ result["w1"].success
    /\ frame["w1"].input.stock = <<>>
    /\ Len(products) = 2
    /\ products[2].stock = 0
    /\ products[2].price = 2

\* C27: a finished update_customer has changed no customer's id (its
\* position in the table) or email and no customer other than the one it
\* names, and a failing one has changed nothing in the store, also when the
\* given name was valid and the phone was not.
C27_UpdateCustomerFrame ==
    \A p \in Procs :
        Done(p, "update_customer")
        => /\ DOMAIN customers = DOMAIN pre[p].customers
           /\ \A i \in DOMAIN customers :
                 /\ customers[i].email = pre[p].customers[i].email
                 /\ i # frame[p].input.id => customers[i] = pre[p].customers[i]
           /\ ~result[p].success => StoreUnchanged(p)

\* C27 witness: an update of an existing customer with a valid new name and
\* an invalid phone has failed at the phone check.
C27_Witness ==
    /\ Done("w1", "update_customer") /\ ~result["w1"].success
    /\ result["w1"].message = validate_phone(<<"1">>)[2]
    /\ frame["w1"].input.id \in DOMAIN customers
    /\ validate_name(frame["w1"].input.name)[1]
    /\ customers[frame["w1"].input.id].name # strip(frame["w1"].input.name)
    /\ Len(customers) = 2

\* The sum of total_amount over the orders of `rows` whose number is in S.
RECURSIVE AmountOver(_, _)
AmountOver(rows, S) ==
    IF S = {} THEN 0
    ELSE LET o == CHOOSE x \in S : TRUE
         IN  rows[o].total_amount + AmountOver(rows, S \ {o})
Revenue(rows) ==
    AmountOver(rows, {o \in DOMAIN rows : rows[o].status = "delivered"
                                          \/ rows[o].status = "shipped"})

\* C28 (as claimed): the total_revenue query returns the sum of
\* total_amount over exactly the delivered and the shipped orders, 0 when
\* there is none; a
\* successful cancel_order of a shipped order lowers it by the order's
\* total_amount, and every other finished mutation leaves the revenue of
\* the orders that existed at its start as it was.
C28_TotalRevenue ==
    /\ resolve_total_revenue(orders) = Revenue(orders)
    /\ \A p \in Procs :
          /\ (Done(p, "total_revenue") /\ ~result[p].raised)
                => /\ result[p].payload = <<Revenue(orders)>>
                   /\ StoreUnchanged(p)
          /\ (Done(p, "cancel_order") /\ result[p].success
               /\ pre[p].orders[frame[p].order].status = "shipped")
                => resolve_total_revenue(orders)
                     = resolve_total_revenue(pre[p].orders)
                       - pre[p].orders[frame[p].order].total_amount
          /\ (/\ pc[p] = "done"
              /\ ~(/\ frame[p].op = "cancel_order" /\ result[p].success
                   /\ pre[p].orders[frame[p].order].status = "shipped"))
                => resolve_total_revenue(SubSeq(orders, 1, Len(pre[p].orders)))
                     = resolve_total_revenue(pre[p].orders)

\* The orders of `rows` that hold a unit of product i: those associated
\* with it whose status is not cancelled.
OpenOrdersOn(rows, i) ==
    {o \in DOMAIN rows : i \in rows[o].products /\ rows[o].status # "cancelled"}

\* C23 (as claimed): when calls do not overlap, in every reachable state the
\* stock of each product is the stock it was created with, plus the
\* stock_change of every successful update_product_stock on it, minus the
\* number of orders associated with it whose status is not cancelled.
C23_StockConservation ==
    \A i \in DOMAIN products :
        products[i].stock = ledger[i] - Cardinality(OpenOrdersOn(orders, i))

\* C24 (as claimed): when two cancel_order calls on one pending, processing
\* or shipped order start from the same store and meet no storage fault, at
\* most one of them succeeds, and the stock of each product of the order
\* has risen by exactly 1 once both have finished.
C24_ReleasedOnce ==
    \A p \in Procs, q \in Procs :
        (/\ p # q
         /\ Done(p, "cancel_order") /\ Done(q, "cancel_order")
         /\ frame[p].input.id = frame[q].input.id
         /\ pre[p] = pre[q]
         /\ frame[p].input.id \in DOMAIN pre[p].orders
         /\ Cancellable(pre[p].orders[frame[p].input.id].status)
         /\ frame[p].raised_at = "" /\ frame[q].raised_at = "")
        => /\ ~(result[p].success /\ result[q].success)
           /\ \A t \in pre[p].orders[frame[p].input.id].products :
                 products[t].stock = pre[p].products[t].stock + 1

\* C25 (as claimed): when two update_product_stock calls on one product
\* start from the same store and both succeed, the stock of the product
\* once both have finished is its stock at their start plus both changes.
C25_NoLostStockUpdate ==
    \A p \in Procs, q \in Procs :
        (/\ p # q
         /\ Done(p, "update_product_stock") /\ result[p].success
         /\ Done(q, "update_product_stock") /\ result[q].success
         /\ frame[p].input.id = frame[q].input.id
         /\ pre[p] = pre[q])
        => products[frame[p].input.id].stock
              = pre[p].products[frame[p].input.id].stock
                + frame[p].input.stock_change + frame[q].input.stock_change

====
